---- MODULE Spec2Model ----
(***************************************************************************)
(* PopActaDraftApp backend: the players / draft_settings store, the pick   *)
(* assignment handlers of app/main.py, the bulk import of                  *)
(* app/services/player_import.py and the VORP drop computation of          *)
(* app/services/vorp.py.                                                   *)
(*                                                                         *)
(* Tables are sequences of rows; a player's id is its index (the import    *)
(* clears sqlite_sequence, so ids restart at 1).  A nullable column holds  *)
(* NULL or a natural number.  Projected points are small naturals and a    *)
(* drop score is the exact rational <<numerator, denominator>> in lowest   *)
(* terms: float rounding is not modelled.                                  *)
(***************************************************************************)
EXTENDS Integers, Sequences, FiniteSets, TLC

\* ---------------------------------------------------------------- bounds
\* Highest pick number a draft may assign (caps the max+1 counter).
MaxPick == 3
\* Projected points are drawn from 1..MaxPoints (or NULL).
MaxPoints == 2
\* total_teams is drawn from 1..MaxTeams.
MaxTeams == 2
\* qb/rb/wr/flex slots are drawn from 0..MaxSlots.
MaxSlots == 1
\* The k of a vorp-drop request is drawn from -MaxK..MaxK.
MaxK == 2
MaxSeen == 3

\* ------------------------------------------------------------ store model
\* SQL NULL / Python None of a nullable column.
NULL == -1

\* te_slots is not part of DraftSettingsUpdate: it keeps the column default.
DefaultTeSlots == 1

Positions == {"QB", "RB", "WR", "TE", "K", "DST"}

\* The threadpool workers that serve two toggle-drafted requests at once.
Workers == {"w1", "w2"}

\* One CSV data row as parse_players_csv sees it: projected_points is the
\* parsed number, or NULL when the text is not a number.
CsvRow(name, position, points) ==
    [name |-> name, position |-> position, team |-> "T", projected_points |-> points]

\* The uploads a client sends to /api/reset-players.
Uploads ==
    { <<CsvRow("a", "RB", 2), CsvRow("b", "RB", 2), CsvRow("c", "WR", 1)>>,
      <<CsvRow("a", "QB", 2), CsvRow("b", "TE", 2), CsvRow("c", "TE", 1)>>,
      <<CsvRow("a", "WR", 2), CsvRow("b", "K", 1), CsvRow("c", "DST", 1)>>,
      <<CsvRow("a", "RB", 1), CsvRow("b", "WR", 1)>>,
      <<CsvRow("a", "RB", 1), CsvRow("", "WR", 1), CsvRow("c", "WR", NULL)>>,
      <<CsvRow("a", "RB", 1), CsvRow("a", "RB", 2)>> }

MaxRows == CHOOSE n \in 0..10 : \A u \in Uploads : Len(u) <= n /\ \E v \in Uploads : Len(v) = n

\* Ids a request may name: every id an import can create.
PlayerIds == 1..MaxRows

VARIABLES
    players,    \* table players: sequence of rows, id = index
    settings,   \* table draft_settings: << >> or << row >>
    last,       \* the last pick-assignment operation and what it did
    streak,     \* players drafted one after another since nobody was drafted
    streakOK,   \* FALSE once an undraft interrupted the streak
    sessions,   \* per worker thread: the toggle_drafted request it is serving
    out,        \* the response of the last /api/vorp-drop request
    needs,      \* the need_* locals of that request
    writes,     \* the score_pool calls of that request, in call order
    reply,      \* the response of the last /api/reset-players request
    scoring,    \* the /api/vorp-drop request being served query by query
    seen        \* history: the players tables committed while it is served

vars == <<players, settings, last, streak, streakOK, sessions, out, needs, writes,
          reply, scoring, seen>>

\* ------------------------------------------------------- pick assignment
Drafted(ps) == {i \in DOMAIN ps : ps[i].actual_pick_number # NULL}

PickNumbers(ps) == {ps[i].actual_pick_number : i \in Drafted(ps)}

\* db.query(func.max(Player.actual_pick_number)).scalar(): NULLs are skipped,
\* NULL when no row has a number.
MaxPickNumber(ps) ==
    IF PickNumbers(ps) = {} THEN NULL
    ELSE CHOOSE m \in PickNumbers(ps) : \A x \in PickNumbers(ps) : x <= m

\* A gap-filling allocator: the smallest number nobody holds.
NextPickSmallestFree(ps) ==
    CHOOSE n \in 1..(Len(ps) + 1) :
        n \notin PickNumbers(ps) /\ \A m \in 1..(n - 1) : m \in PickNumbers(ps)

\* An allocator that skips a number.
NextPickPlusTwo(ps) ==
    (IF MaxPickNumber(ps) = NULL THEN 0 ELSE MaxPickNumber(ps)) + 2

\* next_pick = (max(existing) or 0) + 1
NextPick(ps) ==
    (IF MaxPickNumber(ps) = NULL THEN 0 ELSE MaxPickNumber(ps)) + 1

\* A store without the UNIQUE constraint accepts everything.
UniquePickViolatedNever(ps) == FALSE

\* Column(Integer, unique=True): two rows hold the same non-NULL number.
UniquePickViolated(ps) ==
    \E i, j \in DOMAIN ps :
        /\ i # j
        /\ ps[i].actual_pick_number # NULL
        /\ ps[i].actual_pick_number = ps[j].actual_pick_number

\* The value toggle_drafted assigns to p.actual_pick_number, from the value
\* it loaded and the store it then queries.
Assigned(ps, loaded) == IF loaded = NULL THEN NextPick(ps) ELSE NULL

\* db.commit(): UPDATE players SET actual_pick_number = value WHERE id = pid.
\* No row matched: StaleDataError.  UNIQUE violated: IntegrityError.  Either
\* way the transaction is rolled back and the table is as it was.
FlushCommit(ps, pid, value) ==
    IF pid \notin DOMAIN ps
    THEN [result |-> "StaleDataError", players |-> ps]
    ELSE LET new == [ps EXCEPT ![pid].actual_pick_number = value]
         IN  IF UniquePickViolated(new)
             THEN [result |-> "IntegrityError", players |-> ps]
             ELSE [result |-> "ok", players |-> new]

\* What the last toggle-drafted request did, NoOp once the table was reset
\* or replaced since: number is the pick number it left
\* on player id; cleared is the number an undraft removed and, on a draft that
\* directly follows an undraft of another player, the number that undraft
\* removed; wasMax tells whether cleared was the highest number at that time.
NoOp == [op |-> "none", id |-> 0, number |-> NULL, cleared |-> NULL, wasMax |-> FALSE]

\* out: Dict[int, float] = {}
EmptyMap == [id \in {} |-> <<0, 1>>]

\* No /api/vorp-drop request was served yet.
NoResponse == [status |-> "none", k |-> 0, drops |-> EmptyMap]

NoNeeds == [QB |-> 0, RB |-> 0, WR |-> 0, TE |-> 0, FLEX |-> 0]

\* No /api/reset-players request was served yet.
NoReply == [request |-> << >>, status |-> "none", inserted |-> 0, rows |-> {}]

\* No /api/vorp-drop request is being served query by query.
IdleScoring ==
    [pc |-> "idle", k |-> 0, st |-> << >>, drafted |-> << >>, need |-> NoNeeds,
     pending |-> << >>, calls |-> << >>]

\* History: while a scoring request is being served, every players table a
\* commit leaves is recorded.
SeenNext ==
    seen' = IF scoring.pc \in {"idle", "done"} THEN seen ELSE seen \cup {players'}

IdleSession == [pc |-> "idle", player_id |-> 0, loaded |-> NULL, assigned |-> NULL,
                result |-> "none"]

\* POST /api/players/{player_id}/toggle-drafted, served with no other request
\* in between its queries and its commit.
ToggleDrafted(pid) ==
    /\ IF pid \notin DOMAIN players
       THEN /\ last' = [NoOp EXCEPT !.op = "404", !.id = pid]
            /\ UNCHANGED <<players, streak, streakOK>>
       ELSE LET loaded == players[pid].actual_pick_number
                value  == Assigned(players, loaded)
                done   == FlushCommit(players, pid, value)
            IN  /\ value <= MaxPick
                /\ players' = done.players
                /\ IF done.result # "ok"
                   THEN /\ last' = [NoOp EXCEPT !.op = done.result, !.id = pid]
                        /\ UNCHANGED <<streak, streakOK>>
                   ELSE IF loaded = NULL
                   THEN /\ last' = [op |-> "draft", id |-> pid, number |-> value,
                                    cleared |-> IF last.op = "undraft" /\ last.id # pid
                                                THEN last.cleared ELSE NULL,
                                    wasMax |-> (last.op = "undraft" /\ last.id # pid
                                                /\ last.wasMax)]
                        /\ streak' = IF streakOK THEN Append(streak, pid) ELSE streak
                        /\ UNCHANGED streakOK
                   ELSE /\ last' = [op |-> "undraft", id |-> pid, number |-> value,
                                    cleared |-> loaded,
                                    wasMax |-> (loaded = MaxPickNumber(players))]
                        /\ streak' = << >>
                        /\ streakOK' = (Drafted(done.players) = {})
    /\ UNCHANGED <<settings, sessions, out, needs, writes, reply, scoring>>
    /\ SeenNext

\* POST /api/reset-drafted-status: one UPDATE clears every number.
ClearedAll(ps) == [i \in DOMAIN ps |-> [ps[i] EXCEPT !.actual_pick_number = NULL]]

ResetDraftedStatus ==
    /\ players' = ClearedAll(players)
    /\ last' = NoOp
    /\ streak' = << >>
    /\ streakOK' = TRUE
    /\ UNCHANGED <<settings, sessions, out, needs, writes, reply, scoring>>
    /\ SeenNext

\* ------------------------------------------------------------ bulk import
\* parse_players_csv: the data rows (numbered from 2) that raise.
RowErrors(u) ==
    {i + 1 : i \in {j \in DOMAIN u :
                       u[j].name = "" \/ u[j].position = "" \/ u[j].team = ""
                       \/ u[j].projected_points = NULL}}

\* Player(...) built from a row; actual_pick_number is omitted, hence NULL.
NewPlayer(r) ==
    [name |-> r.name, position |-> r.position, team |-> r.team,
     projected_points |-> r.projected_points, actual_pick_number |-> NULL]

\* UniqueConstraint("name", "position", "team")
IdentityViolated(ps) ==
    \E i, j \in DOMAIN ps :
        /\ i # j
        /\ ps[i].name = ps[j].name
        /\ ps[i].position = ps[j].position
        /\ ps[i].team = ps[j].team

\* A replacement whose failed insert is not rolled back: the delete and the
\* rows inserted before the offending one stay.
ReplacePlayersNoRollback(ps, u) ==
    LET new == [i \in DOMAIN u |-> NewPlayer(u[i])]
        dup == {j \in DOMAIN new : IdentityViolated(SubSeq(new, 1, j))}
    IN  IF dup # {}
        THEN [result |-> "IntegrityError",
              players |-> SubSeq(new, 1, (CHOOSE j \in dup : \A x \in dup : j <= x) - 1),
              inserted |-> 0]
        ELSE [result |-> "ok", players |-> new, inserted |-> Len(u)]

\* replace_players_transactionally: delete all, insert all, in one
\* transaction that is rolled back when the insert raises.
ReplacePlayers(ps, u) ==
    LET new == [i \in DOMAIN u |-> NewPlayer(u[i])]
    IN  IF IdentityViolated(new)
        THEN [result |-> "IntegrityError", players |-> ps, inserted |-> 0]
        ELSE [result |-> "ok", players |-> new, inserted |-> Len(u)]

\* POST /api/reset-players
ResetPlayers(u) ==
    /\ IF RowErrors(u) # {}
       THEN /\ reply' = [request |-> u, status |-> "400", inserted |-> 0,
                         rows |-> RowErrors(u)]
            /\ UNCHANGED <<players, last, streak, streakOK>>
       ELSE LET done == ReplacePlayers(players, u)
            IN  /\ players' = done.players
                /\ reply' = [request |-> u,
                             status |-> IF done.result = "ok" THEN "200" ELSE "500",
                             inserted |-> done.inserted, rows |-> {}]
                /\ IF done.result = "ok"
                   THEN /\ last' = NoOp
                        /\ streak' = << >>
                        /\ streakOK' = TRUE
                   ELSE UNCHANGED <<last, streak, streakOK>>
    /\ UNCHANGED <<settings, sessions, out, needs, writes, scoring>>
    /\ SeenNext

\* The rosters a valid upload leaves in the table.
Rosters ==
    {ReplacePlayers(<< >>, u).players :
        u \in {v \in Uploads : RowErrors(v) = {} /\ ReplacePlayers(<< >>, v).result = "ok"}}

\* ------------------------------------------------- sequential specification
\* An existing database: some imported roster, nobody drafted yet.
Init ==
    /\ players \in Rosters
    /\ settings = << >>
    /\ last = NoOp
    /\ streak = << >>
    /\ streakOK = TRUE
    /\ sessions = [t \in Workers |-> IdleSession]
    /\ out = NoResponse
    /\ needs = NoNeeds
    /\ writes = << >>
    /\ reply = NoReply
    /\ scoring = IdleScoring
    /\ seen = {}

Next ==
    \/ \E pid \in PlayerIds : ToggleDrafted(pid)
    \/ ResetDraftedStatus
    \/ \E u \in Uploads : ResetPlayers(u)

Spec == Init /\ [][Next]_vars

\* ------------------------------------------------ concurrent specification
\* toggle_drafted is a sync handler: FastAPI runs it on a threadpool worker,
\* each request with a session of its own.  Its queries run outside any
\* write transaction, so each sees what is committed when it runs.

\* line 116: p = db.query(Player).filter(Player.id == player_id).first()
QueryPlayer(t, pid) ==
    /\ sessions[t].pc = "idle"
    /\ sessions' = [sessions EXCEPT ![t] =
           IF pid \notin DOMAIN players
           THEN [IdleSession EXCEPT !.pc = "done", !.player_id = pid, !.result = "404"]
           ELSE [IdleSession EXCEPT !.pc = "loaded", !.player_id = pid,
                                    !.loaded = players[pid].actual_pick_number]]
    /\ UNCHANGED <<players, settings, last, streak, streakOK, out, needs, writes, reply, scoring, seen>>

\* lines 120-126: the max query and the assignment to the loaded object
AssignPick(t) ==
    /\ sessions[t].pc = "loaded"
    /\ Assigned(players, sessions[t].loaded) <= MaxPick
    /\ sessions' = [sessions EXCEPT ![t].pc = "dirty",
                                    ![t].assigned = Assigned(players, sessions[t].loaded)]
    /\ UNCHANGED <<players, settings, last, streak, streakOK, out, needs, writes, reply, scoring, seen>>

\* line 128: db.commit(); an exception it raises is not caught (HTTP 500)
Commit(t) ==
    /\ sessions[t].pc = "dirty"
    /\ LET done == FlushCommit(players, sessions[t].player_id, sessions[t].assigned)
       IN  /\ players' = done.players
           /\ sessions' = [sessions EXCEPT ![t].pc = "done", ![t].result = done.result]
    /\ UNCHANGED <<settings, last, streak, streakOK, out, needs, writes, reply, scoring>>
    /\ SeenNext

\* lines 129-130 and get_db's finally: the response is sent, the session closed
Respond(t) ==
    /\ sessions[t].pc = "done"
    /\ sessions' = [sessions EXCEPT ![t] = IdleSession]
    /\ UNCHANGED <<players, settings, last, streak, streakOK, out, needs, writes, reply, scoring, seen>>

NextRace ==
    \/ \E t \in Workers, pid \in PlayerIds : QueryPlayer(t, pid)
    \/ \E t \in Workers : AssignPick(t)
    \/ \E t \in Workers : Commit(t)
    \/ \E t \in Workers : Respond(t)
    \/ ResetDraftedStatus
    \/ \E u \in Uploads : ResetPlayers(u)

SpecRace == Init /\ [][NextRace]_vars

\* ------------------------------------------------------------- vorp drops
\* max(0, x)
Max0(x) == IF x > 0 THEN x ELSE 0

RECURSIVE Gcd(_, _)
Gcd(a, b) == IF b = 0 THEN a ELSE Gcd(b, a % b)

\* The rational n / d (d > 0) in lowest terms.
Rat(n, d) ==
    LET g == Gcd(IF n < 0 THEN 0 - n ELSE n, d)
    IN  <<n \div g, d \div g>>

\* _count_drafted: rows of the position whose actual_pick_number is not NULL
CountDrafted(ps, pos) ==
    Cardinality({i \in DOMAIN ps :
                    ps[i].position = pos /\ ps[i].actual_pick_number # NULL})

\* flex_eligible_positions = ("RB", "WR", "QB")
FlexEligible == {"RB", "WR", "QB"}

\* A FLEX that TE can fill as well.
FlexEligibleWithTE == {"RB", "WR", "QB", "TE"}

SlotsOf(s, pos) ==
    CASE pos = "QB" -> s.qb_slots
      [] pos = "RB" -> s.rb_slots
      [] pos = "WR" -> s.wr_slots
      [] pos = "TE" -> s.te_slots
      [] OTHER -> 0

\* need_qb .. need_te = max(0, total_needed - drafted)
NeedPos(s, ps, pos) == Max0(s.total_teams * SlotsOf(s, pos) - CountDrafted(ps, pos))

\* surplus_qb .. surplus_wr, 0 for a position that is not FLEX-eligible
SurplusPos(s, ps, pos, eligible) ==
    IF pos \in eligible
    THEN Max0(CountDrafted(ps, pos) - s.total_teams * SlotsOf(s, pos))
    ELSE 0

\* need_flex computed from every eligible position's surplus.
NeedFlexOver(s, ps, eligible) ==
    LET Sur(pos) == SurplusPos(s, ps, pos, eligible)
        sum == Sur("QB") + Sur("RB") + Sur("WR") + Sur("TE")
    IN  Max0(s.total_teams * s.flex_slots - sum)

NeedFlexWithTE(s, ps) == NeedFlexOver(s, ps, FlexEligibleWithTE)

\* need_flex = max(0, total_needed_flex - (surplus_qb + surplus_rb + surplus_wr))
NeedFlex(s, ps) ==
    LET Sur(pos) == SurplusPos(s, ps, pos, FlexEligible)
    IN  Max0(s.total_teams * s.flex_slots - (Sur("QB") + Sur("RB") + Sur("WR")))

\* The local variables need_qb, need_rb, need_wr, need_te, need_flex.
NeedTable(s, ps) ==
    [QB |-> NeedPos(s, ps, "QB"), RB |-> NeedPos(s, ps, "RB"),
     WR |-> NeedPos(s, ps, "WR"), TE |-> NeedPos(s, ps, "TE"),
     FLEX |-> NeedFlex(s, ps)]

\* The positions a pool's WHERE clause selects.
PoolPositions(pool) == IF pool = "FLEX" THEN FlexEligible ELSE {pool}

\* ORDER BY projected_points DESC on SQLite: a before b is a legal order when
\* a's points are not lower; NULL sorts below every number.
MayPrecede(a, b) == b = NULL \/ (a # NULL /\ a >= b)

\* The orders in which ORDER BY projected_points DESC may list the rows ids:
\* any row no other row must precede comes first, then the rest.
RECURSIVE DescOrders(_, _)
DescOrders(ps, ids) ==
    IF ids = {} THEN {<< >>}
    ELSE UNION { { <<x>> \o rest : rest \in DescOrders(ps, ids \ {x}) } :
                 x \in {y \in ids : \A z \in ids :
                           MayPrecede(ps[y].projected_points, ps[z].projected_points)} }

\* _sorted_pool: every order the query may return.  The query names no
\* second sort key, so rows with equal points come in any order.
SortedPools(ps, positions) ==
    DescOrders(ps, {i \in DOMAIN ps : ps[i].position \in positions})

\* Python's pool[start:stop] stop index for a list of n items: a negative
\* stop counts from the end, and the result is clamped to 0..n.
SliceStop(stop, n) ==
    LET s1 == IF stop < 0 THEN stop + n ELSE stop
    IN  IF s1 < 0 THEN 0 ELSE IF s1 > n THEN n ELSE s1

\* An off-by-one window, pool[i : i + k]: the item itself and k - 1 successors.
NxtFromSelf(pool, i, k) ==
    {j \in 1..Len(pool) : j >= i /\ j <= SliceStop(i - 1 + k, Len(pool))}

\* nxt = pool[i + 1 : i + 1 + k] for the item at (1-based) place i: the
\* places of its items.
Nxt(pool, i, k) ==
    {j \in 1..Len(pool) : j >= i + 1 /\ j <= SliceStop(i + k, Len(pool))}

\* next_points without its filter on None: every row of the slice counts.
NextPointsUnfiltered(ps, pool, i, k) == Nxt(pool, i, k)

\* next_points: the places of nxt whose projected_points is not None
NextPoints(ps, pool, i, k) ==
    {j \in Nxt(pool, i, k) : ps[pool[j]].projected_points # NULL}

RECURSIVE SumPoints(_, _, _)
SumPoints(ps, pool, places) ==
    IF places = {} THEN 0
    ELSE LET j == CHOOSE x \in places : TRUE
         IN  ps[pool[j]].projected_points + SumPoints(ps, pool, places \ {j})

\* The places of the pool for which score_pool writes an entry.
Scored(ps, pool, k) ==
    {i \in 1..Len(pool) :
        /\ Nxt(pool, i, k) # {}
        /\ ps[pool[i]].projected_points # NULL
        /\ NextPoints(ps, pool, i, k) # {}}

\* float(p.projected_points - mean(next_points))
Drop(ps, pool, i, k) ==
    LET nx == NextPoints(ps, pool, i, k)
        c  == Cardinality(nx)
    IN  Rat(ps[pool[i]].projected_points * c - SumPoints(ps, pool, nx), c)

\* The rows of a returned pool that have projected points, in pool order.
WithPoints(ps, pool) == SelectSeq(pool, LAMBDA id : ps[id].projected_points # NULL)

\* The entries one score_pool call computes: p.id -> drop for every scored p.
PoolScores(ps, pool, k) ==
    LET PlaceOf(id) == CHOOSE i \in 1..Len(pool) : pool[i] = id
    IN  [id \in {pool[i] : i \in Scored(ps, pool, k)} |-> Drop(ps, pool, PlaceOf(id), k)]

\* The commented-out variant of the FLEX call: out.setdefault(pid, val), the
\* score written first is kept.
ScorePoolKeepFirst(store, scores) ==
    [id \in (DOMAIN store) \cup (DOMAIN scores) |->
        IF id \in DOMAIN store THEN store[id] ELSE scores[id]]

\* score_pool's store[p.id] = ...: it writes or overwrites by id
ScorePool(store, scores) ==
    [id \in (DOMAIN store) \cup (DOMAIN scores) |->
        IF id \in DOMAIN scores THEN scores[id] ELSE store[id]]

\* The pools compute_vorp_drop scores, in call order.
PoolOrder == <<"QB", "RB", "WR", "TE", "FLEX">>

\* Scoring that ignores the needs: every pool, every time.
ScoredPoolsUngated(need) == PoolOrder

\* if need_x > 0: score_pool(...), for each pool in turn
ScoredPools(need) == SelectSeq(PoolOrder, LAMBDA pool : need[pool] > 0)

\* The score_pool calls applied to out one after another.
RECURSIVE ScoreAll(_, _)
ScoreAll(calls, store) ==
    IF calls = << >> THEN store
    ELSE ScoreAll(Tail(calls), ScorePool(store, Head(calls).entries))

\* compute_vorp_drop(db, k) on tables st (draft_settings) and ps (players);
\* order[pool] is the row order the pool's query returned.
ComputeVorpDrop(st, ps, k, order) ==
    IF st = << >>
    THEN [drops |-> EmptyMap, needs |-> NoNeeds, writes |-> << >>]
    ELSE LET need  == NeedTable(st[1], ps)
             pools == ScoredPools(need)
             calls == [c \in 1..Len(pools) |->
                          [pool    |-> pools[c],
                           ranked  |-> WithPoints(ps, order[pools[c]]),
                           entries |-> PoolScores(ps, order[pools[c]], k)]]
         IN  [drops |-> ScoreAll(calls, EmptyMap), needs |-> need, writes |-> calls]

\* The row orders a pool's query may return; a pool whose need is 0 is not
\* queried at all.
QueryOrders(st, ps, pool) ==
    IF st # << >> /\ NeedTable(st[1], ps)[pool] > 0
    THEN SortedPools(ps, PoolPositions(pool))
    ELSE {<< >>}

\* GET /api/vorp-drop?k=...: k is any integer, nothing validates it.
GetVorpDrop(k) ==
    /\ \E qb \in QueryOrders(settings, players, "QB"),
          rb \in QueryOrders(settings, players, "RB"),
          wr \in QueryOrders(settings, players, "WR"),
          te \in QueryOrders(settings, players, "TE"),
          fx \in QueryOrders(settings, players, "FLEX") :
          LET order == [QB |-> qb, RB |-> rb, WR |-> wr, TE |-> te, FLEX |-> fx]
              done  == ComputeVorpDrop(settings, players, k, order)
          IN  /\ out' = [status |-> "ok", k |-> k, drops |-> done.drops]
              /\ needs' = done.needs
              /\ writes' = done.writes
    /\ UNCHANGED <<players, settings, last, streak, streakOK, sessions, reply, scoring, seen>>

\* draft_settings rows within the ranges DraftSettingsUpdate accepts.
SettingsRows ==
    [total_teams : 1..MaxTeams, qb_slots : 0..MaxSlots, rb_slots : 0..MaxSlots,
     wr_slots : 0..MaxSlots, te_slots : {DefaultTeSlots}, flex_slots : 0..MaxSlots]

\* PATCH /api/players/{id} may set projected_points to any number or null.
PointValues == {NULL} \cup 1..MaxPoints

\* The table after the players of drafted were drafted in id order.
DraftedInOrder(ps, drafted) ==
    [i \in DOMAIN ps |->
        [ps[i] EXCEPT !.actual_pick_number =
            IF i \in drafted THEN Cardinality({j \in drafted : j <= i}) ELSE NULL]]

\* Rows whose qb, rb, wr and flex slot counts are all the same.
UniformRows ==
    {s \in SettingsRows :
        s.qb_slots = s.rb_slots /\ s.rb_slots = s.wr_slots /\ s.wr_slots = s.flex_slots}

\* The tables compute_vorp_drop may find after an import and some drafts.
ImportedSnapshots ==
    UNION { {DraftedInOrder(r, drafted) : drafted \in SUBSET (DOMAIN r)} : r \in Rosters }

\* The same with projected points edited by update_player.
EditedSnapshots ==
    UNION { { [i \in DOMAIN ps |-> [ps[i] EXCEPT !.projected_points = pts[i]]] :
                pts \in [DOMAIN ps -> PointValues] } :
            ps \in ImportedSnapshots }

\* An existing database: every edit of the points under a uniform settings
\* row (or none), or every settings row over the imported points.
InitVorp ==
    /\ \/ /\ players \in EditedSnapshots
          /\ settings \in {<< >>} \cup {<<s>> : s \in UniformRows}
       \/ /\ players \in ImportedSnapshots
          /\ settings \in {<<s>> : s \in SettingsRows}
    /\ last = NoOp
    /\ streak = << >>
    /\ streakOK = TRUE
    /\ sessions = [t \in Workers |-> IdleSession]
    /\ out = NoResponse
    /\ needs = NoNeeds
    /\ writes = << >>
    /\ reply = NoReply
    /\ scoring = IdleScoring
    /\ seen = {}

\* A client polls one snapshot with one k, any number of times (every
\* response to every k is reached from the snapshot itself).
NextVorp ==
    \E k \in (0 - MaxK)..MaxK :
        /\ out.status = "none" \/ out.k = k
        /\ GetVorpDrop(k)

SpecVorp == InitVorp /\ [][NextVorp]_vars

\* ---------------------------------------- scoring, one query after another
\* get_vorp_drop is a sync handler on a threadpool worker; compute_vorp_drop
\* issues its queries one by one on a session that opens no read transaction
\* (no BEGIN is emitted before a SELECT), so each query sees what is
\* committed when it runs, and toggle_drafted requests of other workers
\* commit in between.

\* The order of the _count_drafted calls.
CountOrder == <<"QB", "RB", "WR", "TE">>

\* need_qb .. need_flex from the counts d = <<drafted_qb, drafted_rb,
\* drafted_wr, drafted_te>> the four _count_drafted calls returned.
NeedTableFrom(s, d) ==
    LET Total(pos) == s.total_teams * SlotsOf(s, pos)
        At(pos)    == d[CHOOSE i \in DOMAIN CountOrder : CountOrder[i] = pos]
        Sur(pos)   == Max0(At(pos) - Total(pos))
    IN  [QB |-> Max0(Total("QB") - At("QB")), RB |-> Max0(Total("RB") - At("RB")),
         WR |-> Max0(Total("WR") - At("WR")), TE |-> Max0(Total("TE") - At("TE")),
         FLEX |-> Max0(s.total_teams * s.flex_slots - (Sur("QB") + Sur("RB") + Sur("WR")))]

\* s = db.query(DraftSettings).first(); if not s: return {}
BeginScoring(k) ==
    /\ scoring.pc = "idle"
    /\ seen' = {players}
    /\ IF settings = << >>
       THEN /\ scoring' = [IdleScoring EXCEPT !.pc = "done", !.k = k]
            /\ out' = [status |-> "ok", k |-> k, drops |-> EmptyMap]
            /\ needs' = NoNeeds
            /\ writes' = << >>
       ELSE /\ scoring' = [IdleScoring EXCEPT !.pc = "count", !.k = k, !.st = settings]
            /\ UNCHANGED <<out, needs, writes>>
    /\ UNCHANGED <<players, settings, last, streak, streakOK, sessions, reply>>

\* drafted_qb = _count_drafted(db, "QB") .. drafted_te; after the last one
\* the needs are computed and with them the pools to score.
CountDraftedStep ==
    /\ scoring.pc = "count"
    /\ LET pos   == CountOrder[Len(scoring.drafted) + 1]
           d     == Append(scoring.drafted, CountDrafted(players, pos))
           need  == NeedTableFrom(scoring.st[1], d)
       IN  scoring' = IF Len(d) < Len(CountOrder)
                      THEN [scoring EXCEPT !.drafted = d]
                      ELSE [scoring EXCEPT !.drafted = d, !.pc = "score", !.need = need,
                                           !.pending = ScoredPools(need)]
    /\ UNCHANGED <<players, settings, last, streak, streakOK, sessions, out, needs,
                   writes, reply, seen>>

\* if need_x > 0: score_pool(_sorted_pool(db, ...), out)
ScorePoolStep ==
    /\ scoring.pc = "score"
    /\ scoring.pending # << >>
    /\ \E order \in SortedPools(players, PoolPositions(Head(scoring.pending))) :
          scoring' = [scoring EXCEPT
                         !.pending = Tail(scoring.pending),
                         !.calls = Append(scoring.calls,
                                      [pool    |-> Head(scoring.pending),
                                       ranked  |-> WithPoints(players, order),
                                       entries |-> PoolScores(players, order, scoring.k)])]
    /\ UNCHANGED <<players, settings, last, streak, streakOK, sessions, out, needs,
                   writes, reply, seen>>

\* return out
ReturnScores ==
    /\ scoring.pc = "score"
    /\ scoring.pending = << >>
    /\ scoring' = [scoring EXCEPT !.pc = "done"]
    /\ out' = [status |-> "ok", k |-> scoring.k, drops |-> ScoreAll(scoring.calls, EmptyMap)]
    /\ needs' = scoring.need
    /\ writes' = scoring.calls
    /\ UNCHANGED <<players, settings, last, streak, streakOK, sessions, reply, seen>>

\* An existing database with any league configuration, or none.
InitSnap ==
    /\ players \in ImportedSnapshots
    /\ settings \in {<< >>} \cup {<<s>> : s \in SettingsRows}
    /\ last = NoOp
    /\ streak = << >>
    /\ streakOK = TRUE
    /\ sessions = [t \in Workers |-> IdleSession]
    /\ out = NoResponse
    /\ needs = NoNeeds
    /\ writes = << >>
    /\ reply = NoReply
    /\ scoring = IdleScoring
    /\ seen = {}

\* One scoring request with toggle-drafted requests committing between its
\* queries (those before it are in the initial table, those after it do not
\* reach it).
NextSnap ==
    \/ \E k \in 1..MaxK : BeginScoring(k)
    \/ CountDraftedStep
    \/ ScorePoolStep
    \/ ReturnScores
    \/ \E pid \in PlayerIds :
          /\ scoring.pc \in {"count", "score"}
          /\ Cardinality(seen) < MaxSeen
          /\ ToggleDrafted(pid)

SpecSnap == InitSnap /\ [][NextSnap]_vars

\* ------------------------------------------------------------------ claims
\* C1: whatever toggle-drafted, reset-drafted-status and bulk-import requests
\* were served, no two players hold the same pick number.
C1_PickNumbersUnique ==
    \A i, j \in DOMAIN players :
        (i # j /\ players[i].actual_pick_number # NULL)
            => players[i].actual_pick_number # players[j].actual_pick_number

\* Every player of a three-player roster holds a number.
C1_Witness == Cardinality(Drafted(players)) = 3 /\ Cardinality(PickNumbers(players)) = 3

\* C2: a draft that commits, for a player still in the table, a number another
\* player already holds (both requests read the same maximum) is rejected by
\* the store: the request
\* fails with IntegrityError, the table is left as it was, and so no two
\* requests' players ever hold the number together.
C2_CollidingDraftRejected ==
    [][\A t \in Workers :
          ( /\ sessions[t].pc = "dirty"
            /\ sessions'[t].pc = "done"
            /\ sessions[t].assigned # NULL
            /\ sessions[t].player_id \in DOMAIN players
            /\ \E q \in DOMAIN players :
                  /\ q # sessions[t].player_id
                  /\ players[q].actual_pick_number = sessions[t].assigned )
          => ( /\ sessions'[t].result = "IntegrityError"
               /\ players' = players
               /\ Cardinality(PickNumbers(players')) = Cardinality(Drafted(players')) )
      ]_vars

\* Two requests drafted distinct players with the same number: one committed
\* it, the other failed and its player is still undrafted.
C2_Witness ==
    \E t, u \in Workers :
        /\ t # u
        /\ sessions[t].pc = "done" /\ sessions[t].result = "ok"
        /\ sessions[u].pc = "done" /\ sessions[u].result = "IntegrityError"
        /\ sessions[t].player_id # sessions[u].player_id
        /\ sessions[t].assigned # NULL
        /\ sessions[u].assigned = sessions[t].assigned
        /\ players[sessions[t].player_id].actual_pick_number = sessions[t].assigned
        /\ players[sessions[u].player_id].actual_pick_number = NULL

\* C3 as stated: an undraft of a player holding n, directly followed by a
\* draft of a different player, never hands out n again.
C3_ClearedNumberNotReused ==
    (last.op = "draft" /\ last.cleared # NULL) => last.number # last.cleared

\* C3 amended: the draft that directly follows an undraft of another player
\* gets max(remaining) + 1, which is above the cleared number n when n was
\* not the highest number at the undraft, and at most n (so possibly n again)
\* when n was the highest.
C3_ClearedNumberReusedOnlyIfMax ==
    (last.op = "draft" /\ last.cleared # NULL) =>
        /\ last.number = players[last.id].actual_pick_number
        /\ IF last.wasMax THEN last.number <= last.cleared
                          ELSE last.number > last.cleared

\* An undraft below the maximum was followed by a draft of another player.
C3_Witness ==
    /\ last.op = "draft"
    /\ last.cleared # NULL
    /\ ~last.wasMax
    /\ Cardinality(Drafted(players)) >= 2

\* C4: from a state with nobody drafted, N drafts in a row on N distinct
\* players leave exactly the numbers 1..N, the i-th drafted player holding i.
C4_ConsecutiveDraftsNumberFromOne ==
    streakOK =>
        /\ \A i \in 1..Len(streak) : players[streak[i]].actual_pick_number = i
        /\ PickNumbers(players) = 1..Len(streak)
        /\ Drafted(players) = {streak[i] : i \in 1..Len(streak)}

\* Three players were drafted in a row.
C4_Witness == streakOK /\ Len(streak) = 3

\* The sum of the projected points of the rows at places lo..hi of r.
RECURSIVE SumValues(_, _, _)
SumValues(r, lo, hi) ==
    IF lo > hi THEN 0
    ELSE players[r[lo]].projected_points + SumValues(r, lo + 1, hi)

\* C5: for k >= 1, in every pool that was scored (its rows with points, in
\* descending order), the row at place i that is not the last gets
\* value[i] - mean(value[i+1 .. min(i+k, end)]), and the last row gets no
\* entry from that pool.
C5_DropIsValueMinusMeanOfNextK ==
    (out.status = "ok" /\ out.k >= 1) =>
        \A c \in DOMAIN writes :
            LET r == writes[c].ranked
                n == Len(r)
                e == writes[c].entries
                V(i) == players[r[i]].projected_points
            IN  /\ \A i, j \in 1..n : i < j => V(i) >= V(j)
                /\ n >= 1 => r[n] \notin DOMAIN e
                /\ \A i \in 1..(n - 1) :
                      LET m == IF out.k < n - i THEN out.k ELSE n - i
                      IN  /\ r[i] \in DOMAIN e
                          /\ e[r[i]][2] > 0
                          /\ e[r[i]][1] * m = e[r[i]][2] * (V(i) * m - SumValues(r, i + 1, i + m))

\* A pool of three rows was scored with k = 2 and its best row dropped by 1/2
\* (2 against a mean of 2 and 1).
C5_Witness ==
    /\ out.status = "ok"
    /\ out.k = 2
    /\ \E c \in DOMAIN writes :
          /\ Len(writes[c].ranked) = 3
          /\ writes[c].entries[writes[c].ranked[1]] = <<1, 2>>
          /\ writes[c].ranked[2] \in DOMAIN writes[c].entries

DraftedAt(ps, pos) ==
    Cardinality({i \in DOMAIN ps : ps[i].position = pos /\ ps[i].actual_pick_number # NULL})

\* surplusPos = max(0, draftedPos - teams x slotsPos) for QB, RB, WR
SurplusAt(s, ps, pos) ==
    LET slots == IF pos = "QB" THEN s.qb_slots
                 ELSE IF pos = "RB" THEN s.rb_slots ELSE s.wr_slots
        d == DraftedAt(ps, pos) - s.total_teams * slots
    IN  IF d > 0 THEN d ELSE 0

\* The table after player i's drafted status is toggled.
Toggled(ps, i) == FlushCommit(ps, i, Assigned(ps, ps[i].actual_pick_number)).players

C8_KBelowOneRejected == out.status = "ok" => out.k >= 1

\* C9: two requests with the same k on an unchanged snapshot return the same
\* mapping.
C9_SameSnapshotSameDrops ==
    [][( /\ out.status = "ok"
         /\ out'.status = "ok"
         /\ out'.k = out.k
         /\ players' = players
         /\ settings' = settings )
       => out'.drops = out.drops]_vars

\* C10: for k >= 1 a player without projected points is no key of the
\* mapping, and every pool's entries are those the pool without its
\* point-less rows yields: such rows add nothing to anybody's mean.
C10_AbsentPointsTakeNoPart ==
    (out.status = "ok" /\ out.k >= 1) =>
        /\ \A id \in DOMAIN out.drops : players[id].projected_points # NULL
        /\ \A c \in DOMAIN writes :
              /\ \A id \in DOMAIN writes[c].entries : players[id].projected_points # NULL
              /\ writes[c].entries = PoolScores(players, writes[c].ranked, out.k)

\* A pool that wrote entries has a player without projected points among
\* its candidates.
C10_Witness ==
    /\ out.status = "ok"
    /\ out.k >= 1
    /\ \E c \in DOMAIN writes :
          /\ DOMAIN writes[c].entries # {}
          /\ \E i \in DOMAIN players :
                /\ players[i].position \in PoolPositions(writes[c].pool)
                /\ players[i].projected_points = NULL

\* The rows an upload describes, as freshly inserted players.
NewRows(u) == [i \in DOMAIN u |-> NewPlayer(u[i])]

\* Two tables hold the same players, pick numbers aside.
SameRoster(ps, qs) ==
    /\ Len(ps) = Len(qs)
    /\ \A i \in DOMAIN ps :
          [ps[i] EXCEPT !.actual_pick_number = NULL] = [qs[i] EXCEPT !.actual_pick_number = NULL]

\* C11: bulk import is all-or-nothing.  A reset-players request that answers
\* with an error (invalid rows: 400, failed delete-and-insert: 500) leaves
\* the players table, pick numbers included, as it was; one that succeeds
\* leaves exactly the uploaded rows and returns their number; and the roster
\* never changes in any other way, so no mix of old and new rows and no part
\* of an upload is ever committed.
C11_ImportAllOrNothing ==
    [][ LET replaced == /\ reply'.status = "200"
                        /\ players' = NewRows(reply'.request)
                        /\ reply'.inserted = Len(players')
        IN  /\ (reply' # reply /\ reply'.status # "200") => players' = players
            /\ (reply' # reply /\ reply'.status = "200") => replaced
            /\ ~SameRoster(players, players') => replaced ]_vars

\* The delete-and-insert of an upload failed while a player held a pick number.
C11_Witness ==
    /\ reply.status = "500"
    /\ Drafted(players) # {}

\* The mappings compute_vorp_drop returns on the one store state (st, ps).
DropsOn(st, ps, k) ==
    {ComputeVorpDrop(st, ps, k, [QB |-> qb, RB |-> rb, WR |-> wr, TE |-> te, FLEX |-> fx]).drops :
        qb \in QueryOrders(st, ps, "QB"), rb \in QueryOrders(st, ps, "RB"),
        wr \in QueryOrders(st, ps, "WR"), te \in QueryOrders(st, ps, "TE"),
        fx \in QueryOrders(st, ps, "FLEX")}

\* C12: the mapping a scoring request returns while toggle-drafted requests
\* commit between its queries is the mapping of one store state that existed
\* during the request.
C12_OneConsistentSnapshot ==
    (scoring.pc = "done") =>
        \E ps \in seen : out.drops \in DropsOn(settings, ps, scoring.k)

\* neededPos = max(0, teams x slotsPos - draftedPos) for QB, RB, WR, TE
NeededAt(s, ps, pos) ==
    LET slots == CASE pos = "QB" -> s.qb_slots [] pos = "RB" -> s.rb_slots
                   [] pos = "WR" -> s.wr_slots [] pos = "TE" -> s.te_slots
        d == s.total_teams * slots - DraftedAt(ps, pos)
    IN  IF d > 0 THEN d ELSE 0

\* neededFlex, from the surpluses at QB, RB and WR
NeededFlexAt(s, ps) ==
    LET d == s.total_teams * s.flex_slots
             - (SurplusAt(s, ps, "QB") + SurplusAt(s, ps, "RB") + SurplusAt(s, ps, "WR"))
    IN  IF d > 0 THEN d ELSE 0

\* The pools with remaining need.
GatedPools(s, ps) ==
    {pos \in {"QB", "RB", "WR", "TE"} : NeededAt(s, ps, pos) > 0}
        \cup (IF NeededFlexAt(s, ps) > 0 THEN {"FLEX"} ELSE {})

\* C13: pools are gated by remaining need.  The pools scored are exactly
\* the position pools with neededPos > 0 and the FLEX pool (QB, RB, WR) when
\* neededFlex > 0; the mapping holds the entries of those pools and no
\* others; a player with an entry has a successor in a scored pool; the
\* mapping is empty when every need is zero or the configuration is absent;
\* K and DST players never have an entry.
C13_PoolsGatedByNeed ==
    (out.status = "ok") =>
        IF settings = << >>
        THEN out.drops = EmptyMap /\ writes = << >>
        ELSE LET gated == GatedPools(settings[1], players)
             IN  /\ {writes[c].pool : c \in DOMAIN writes} = gated
                 /\ \A c \in DOMAIN writes :
                       \A x \in DOMAIN writes[c].ranked :
                          players[writes[c].ranked[x]].position \in
                              (IF writes[c].pool = "FLEX" THEN {"QB", "RB", "WR"}
                               ELSE {writes[c].pool})
                 /\ DOMAIN out.drops = UNION {DOMAIN writes[c].entries : c \in DOMAIN writes}
                 /\ \A id \in DOMAIN out.drops :
                       /\ players[id].position \notin {"K", "DST"}
                       /\ \E c \in DOMAIN writes :
                             \E x, y \in DOMAIN writes[c].ranked :
                                x < y /\ writes[c].ranked[x] = id
                 /\ (gated = {}) => out.drops = EmptyMap

\* A position with two ranked players has no need left and contributes
\* nothing, while another pool is scored and yields entries.
C13_Witness ==
    /\ out.status = "ok"
    /\ settings # << >>
    /\ DOMAIN out.drops # {}
    /\ \E pos \in {"QB", "RB", "WR", "TE"} :
          /\ NeededAt(settings[1], players, pos) = 0
          /\ Cardinality({i \in DOMAIN players :
                             players[i].position = pos /\ players[i].projected_points # NULL}) >= 2
          /\ \A c \in DOMAIN writes : writes[c].pool # pos

====
